---- MODULE Spec2Model ----
(***************************************************************************)
(* Model of MML_get.py: parse_pdf_text_by_toc (text normalisation, TOC     *)
(* parsing, anchor segmentation, field extraction) and the process_pdf     *)
(* request handler.                                                        *)
(*                                                                         *)
(* Text is a sequence of one-character strings.  Offsets are 0-based as in *)
(* Python (t[k] of the source is t[k+1] here), and -1 is "not found" as    *)
(* returned by str.find.  The bullet glyph U+2022 is written "@".          *)
(***************************************************************************)
EXTENDS Integers, Sequences, FiniteSets, TLC

VARIABLES
    request,      \* the body of the POST to /process_pdf
    response,     \* what process_pdf returns
    pc,           \* the position in process_pdf and parse_pdf_text_by_toc
    invoked,      \* parse_pdf_text_by_toc has been called
    toc_text,     \* process_pdf: data.get('toc_text', '')
    pdf_text,     \* process_pdf: data.get('pdf_text', '')
    full_text,    \* parse_pdf_text_by_toc: the body text, normalised in place
    toc_entries,  \* parse_pdf_text_by_toc: the parsed TOC
    i,            \* the number of TOC entries the loop of line 45 has handled
    data,         \* the records appended so far
    slices,       \* start_index and end_index of each record's section_content
    warnings      \* the anchors printed by line 54

vars == <<request, response, pc, invoked, toc_text, pdf_text, full_text, toc_entries,
          i, data, slices, warnings>>

---------------------------------------------------------------------------
(* Character classes of the regular expressions                            *)

Space  == {" ", "\t", "\n"}
Digits == {"0", "1", "2", "3", "4", "5", "6", "7", "8", "9"}
Dots   == {"."}
Bullet == "@"

LowerCase == <<"a","b","c","d","e","f","g","h","i","j","k","l","m","n","o","p","q","r","s","t","u","v","w","x","y","z">>
UpperCase == <<"A","B","C","D","E","F","G","H","I","J","K","L","M","N","O","P","Q","R","S","T","U","V","W","X","Y","Z">>

\* str.upper() on one character
UpperChar(c) ==
    IF \E k \in 1..Len(LowerCase) : LowerCase[k] = c
    THEN UpperCase[CHOOSE k \in 1..Len(LowerCase) : LowerCase[k] = c]
    ELSE c

Upper(t) == [k \in 1..Len(t) |-> UpperChar(t[k])]

\* t[a:b] of Python, for 0 <= a <= b <= len(t)
Slice(t, a, b) == SubSeq(t, a + 1, b)

\* the offset just past the longest run of characters of class S starting at
\* offset p: a greedy S* (or S+ when the result exceeds p)
RECURSIVE Skip(_, _, _)
Skip(t, p, S) ==
    IF p < Len(t) /\ t[p + 1] \in S THEN Skip(t, p + 1, S) ELSE p

HasNewline(t, a, b) == \E k \in (a + 1)..b : t[k] = "\n"

StartsWith(t, p, w) ==
    /\ p + Len(w) <= Len(t)
    /\ \A k \in 1..Len(w) : t[p + k] = w[k]

StartsWithIgnoreCase(t, p, w) ==
    /\ p + Len(w) <= Len(t)
    /\ \A k \in 1..Len(w) : UpperChar(t[p + k]) = UpperChar(w[k])

\* the least of the offsets at which a pattern matches, or -1: where a
\* leftmost search finds its match
First(offsets) ==
    IF offsets = {} THEN -1 ELSE CHOOSE k \in offsets : \A j \in offsets : k <= j

\* str.find(w, from): the first offset >= from at which w occurs, or -1
Find(t, w, from) ==
    LET At(k) == StartsWith(t, k, w) IN First({ k \in from..(Len(t) - Len(w)) : At(k) })

\* str.strip()
RECURSIVE LStrip(_)
LStrip(t) == IF t # <<>> /\ Head(t) \in Space THEN LStrip(Tail(t)) ELSE t

RECURSIVE RStrip(_)
RStrip(t) ==
    IF t # <<>> /\ t[Len(t)] \in Space THEN RStrip(SubSeq(t, 1, Len(t) - 1)) ELSE t

Strip(t) == RStrip(LStrip(t))

\* str.split('\n') from offset p on: the pieces between line breaks (one piece
\* when there is none)
RECURSIVE SplitLines(_, _)
SplitLines(t, p) ==
    LET k == Find(t, <<"\n">>, p) IN
    IF k = -1 THEN <<Slice(t, p, Len(t))>>
    ELSE <<Slice(t, p, k)>> \o SplitLines(t, k + 1)

---------------------------------------------------------------------------
(* 1. Text normalisation                                                   *)

\* re.sub(r'\s*\n\s*\.\s*', '.', t) from offset p on: a whitespace run holding
\* a line break and followed by a stop is replaced, with the whitespace after
\* the stop, by "."
BreakDotAt(t, k) ==
    LET q == Skip(t, k, Space) IN
    q > k /\ HasNewline(t, k, q) /\ q < Len(t) /\ t[q + 1] = "."

RECURSIVE SubBreakDot(_, _)
SubBreakDot(t, p) ==
    LET At(k) == BreakDotAt(t, k)
        k == First({ j \in p..(Len(t) - 1) : At(j) })
    IN  IF k = -1 THEN Slice(t, p, Len(t))
        ELSE Slice(t, p, k) \o <<".">>
                 \o SubBreakDot(t, Skip(t, Skip(t, k, Space) + 1, Space))

\* re.sub(r'-\s*\n\s*', '', t) from offset p on: a hyphen and the following
\* whitespace run, when the run holds a line break, are deleted
HyphenBreakAt(t, k) ==
    t[k + 1] = "-" /\ HasNewline(t, k + 1, Skip(t, k + 1, Space))

RECURSIVE SubHyphenBreak(_, _)
SubHyphenBreak(t, p) ==
    LET At(k) == HyphenBreakAt(t, k)
        k == First({ j \in p..(Len(t) - 1) : At(j) })
    IN  IF k = -1 THEN Slice(t, p, Len(t))
        ELSE Slice(t, p, k) \o SubHyphenBreak(t, Skip(t, k + 1, Space))

\* re.sub(r'\s*\n\s*', ' ', t) from offset p on: a whitespace run holding a line
\* break becomes one space
NewlineRunAt(t, k) ==
    LET q == Skip(t, k, Space) IN q > k /\ HasNewline(t, k, q)

RECURSIVE SubNewline(_, _)
SubNewline(t, p) ==
    LET At(k) == NewlineRunAt(t, k)
        k == First({ j \in p..(Len(t) - 1) : At(j) })
    IN  IF k = -1 THEN Slice(t, p, Len(t))
        ELSE Slice(t, p, k) \o <<" ">> \o SubNewline(t, Skip(t, k, Space))

\* re.sub(r'\s+', ' ', t) from offset p on: every whitespace run becomes one space
RECURSIVE SubSpaces(_, _)
SubSpaces(t, p) ==
    LET At(k) == t[k + 1] \in Space
        k == First({ j \in p..(Len(t) - 1) : At(j) })
    IN  IF k = -1 THEN Slice(t, p, Len(t))
        ELSE Slice(t, p, k) \o <<" ">> \o SubSpaces(t, Skip(t, k, Space))

NormalizeUncollapsed(t) ==
    SubNewline(SubHyphenBreak(SubBreakDot(t, 0), 0), 0)

\* lines 20-26, the four substitutions in the order of the source
NormalizeText(t) ==
    Strip(SubSpaces(SubNewline(SubHyphenBreak(SubBreakDot(t, 0), 0), 0), 0))

---------------------------------------------------------------------------
(* 2. TOC parsing                                                          *)

\* (?:\.\d+)+ continued greedily from offset p
RECURSIVE MoreParts(_, _)
MoreParts(t, p) ==
    IF p < Len(t) /\ t[p + 1] = "." /\ Skip(t, p + 1, Digits) > p + 1
    THEN MoreParts(t, Skip(t, p + 1, Digits))
    ELSE p

\* (\d+(?:\.\d+)+) at offset p: the offset past the number, or -1.  Only the
\* longest match can be followed by the \s+ the pattern requires next, since a
\* shorter one is followed by a digit or a stop.
NumberEnd(t, p) ==
    LET d == Skip(t, p, Digits) IN
    IF p < 0 \/ d = p \/ MoreParts(t, d) = d THEN -1 ELSE MoreParts(t, d)

\* \s*\.{3,}\s*\d+ at offset e: the offset past the page number, or -1.  The
\* stops of the run must all be taken (one left over is no \s and no \d).
LeaderEnd(t, e) ==
    LET a == Skip(t, e, Space)
        b == Skip(t, a, Dots)
        c == Skip(t, b, Space)
        d == Skip(t, c, Digits)
    IN  IF b - a >= 3 /\ d > c THEN d ELSE -1

\* ([^\n]+?) from offset s: the first end, at least one character on and
\* before any line break, at which the leader and page number follow, or -1
TitleEnd(t, s) ==
    LET At(e) == LeaderEnd(t, e) # -1 /\ ~HasNewline(t, s, e) IN
    First({ e \in (s + 1)..Len(t) : At(e) })

\* \s+ between number and title: greedy, giving whitespace back to the title
\* (from offset s down to n + 1) until the rest of the pattern matches
RECURSIVE TitleStart(_, _, _)
TitleStart(t, n, s) ==
    IF s <= n THEN -1
    ELSE IF TitleEnd(t, s) # -1 THEN s
    ELSE TitleStart(t, n, s - 1)

NoMatch == [ok |-> FALSE, number |-> <<>>, title |-> <<>>, end |-> -1]

\* one match of the TOC line pattern starting exactly at offset p; with
\* bulleted the pattern of line 32, without it the pattern of line 35
MatchTocAt(t, p, bulleted) ==
    LET n0 == IF ~bulleted THEN p
              ELSE IF p < Len(t) /\ t[p + 1] = Bullet THEN Skip(t, p + 1, Space)
              ELSE -1
        n1 == NumberEnd(t, n0)
        s  == IF n1 = -1 THEN -1 ELSE TitleStart(t, n1, Skip(t, n1, Space))
        e  == IF s = -1 THEN -1 ELSE TitleEnd(t, s)
    IN  IF e = -1 THEN NoMatch
        ELSE [ok |-> TRUE, number |-> Slice(t, n0, n1), title |-> Slice(t, s, e),
              end |-> LeaderEnd(t, e)]

\* re.findall: leftmost matches, each search resuming where the last match ended
RECURSIVE FindAllToc(_, _, _)
FindAllToc(t, p, bulleted) ==
    LET At(k) == MatchTocAt(t, k, bulleted).ok
        k == First({ j \in p..(Len(t) - 1) : At(j) })
        m == MatchTocAt(t, k, bulleted)
    IN  IF k = -1 THEN <<>> ELSE <<m>> \o FindAllToc(t, m.end, bulleted)

TocLinesBulletedOnly(t) == FindAllToc(t, 0, TRUE)

\* lines 32-35: the bulleted pattern, and the unbulleted one when it finds nothing
TocLines(t) ==
    IF FindAllToc(t, 0, TRUE) # <<>> THEN FindAllToc(t, 0, TRUE)
    ELSE FindAllToc(t, 0, FALSE)

\* \.{3,}\s*\d+ at offset k: the offset past the page number, or -1
LeaderAt(t, k) ==
    LET b == Skip(t, k, Dots)
        c == Skip(t, b, Space)
        d == Skip(t, c, Digits)
    IN  IF b - k >= 3 /\ d > c THEN d ELSE -1

\* re.sub(r'\.{3,}\s*\d+', '', d) from offset p on
RECURSIVE SubLeader(_, _)
SubLeader(t, p) ==
    LET At(k) == LeaderAt(t, k) # -1
        k == First({ j \in p..(Len(t) - 1) : At(j) })
    IN  IF k = -1 THEN Slice(t, p, Len(t))
        ELSE Slice(t, p, k) \o SubLeader(t, LeaderAt(t, k))

\* line 39
CleanDescription(description) == Strip(SubLeader(description, 0))

\* lines 37-40
TocEntries(t) ==
    LET lines == TocLines(t) IN
    [k \in 1..Len(lines) |->
        [number |-> Strip(lines[k].number),
         description |-> CleanDescription(lines[k].title)]]

---------------------------------------------------------------------------
(* 3. Anchor segmentation                                                  *)

\* lines 49 and 61: f"{number} {description}"
AnchorOf(entry) == entry.number \o <<" ">> \o entry.description

\* line 50: the anchor is searched in the whole text
StartIndex(text, entry) == Find(text, AnchorOf(entry), 0)

\* lines 58-64: the end of entry k's section, the entry being found at start
EndIndex(text, entries, k, start) ==
    IF k + 1 <= Len(entries)
    THEN LET next_index ==
                 Find(text, AnchorOf(entries[k + 1]), start + Len(AnchorOf(entries[k])))
         IN  IF next_index # -1 THEN next_index ELSE Len(text)
    ELSE Len(text)

---------------------------------------------------------------------------
(* 4. Field extraction                                                     *)

InfoLabel        == <<"I","n","f","o">>
SolutionLabel    == <<"S","o","l","u","t","i","o","n">>
SeeAlsoLabel     == <<"S","e","e"," ","A","l","s","o">>
ReferencesLabel  == <<"R","e","f","e","r","e","n","c","e","s">>
AuditFileLabel   == <<"A","u","d","i","t"," ","F","i","l","e">>
PolicyValueLabel == <<"P","o","l","i","c","y"," ","V","a","l","u","e">>
HostsLabel       == <<"H","o","s","t","s">>
NA               == <<"N","/","A">>

StatusWords == { <<"F","A","I","L","E","D">>, <<"P","A","S","S","E","D">>,
                 <<"S","K","I","P","P","E","D">> }

Marker(w) == <<"*","*"," ">> \o w \o <<" ","*","*">>

None == [found |-> FALSE, group |-> <<>>]

\* re.search(r'\*\* (FAILED|PASSED|SKIPPED) \*\*', section): the leftmost marker
SearchMarker(section) ==
    LET At(k) == \E w \in StatusWords : StartsWith(section, k, Marker(w))
        k == First({ j \in 0..(Len(section) - 1) : At(j) })
    IN  IF k = -1 THEN None
        ELSE [found |-> TRUE,
              group |-> CHOOSE w \in StatusWords : StartsWith(section, k, Marker(w))]

\* re.search(r'Policy Value\s*\n\s*(FAILED|PASSED|SKIPPED)', section, re.IGNORECASE):
\* the label, a whitespace run holding a line break, a status word
PolicyStatusAt(section, k) ==
    LET a == k + Len(PolicyValueLabel)
        q == Skip(section, a, Space)
    IN  /\ StartsWithIgnoreCase(section, k, PolicyValueLabel)
        /\ HasNewline(section, a, q)
        /\ \E w \in StatusWords : StartsWithIgnoreCase(section, q, w)

SearchPolicyStatus(section) ==
    LET At(k) == PolicyStatusAt(section, k)
        k == First({ j \in 0..(Len(section) - 1) : At(j) })
        q == Skip(section, k + Len(PolicyValueLabel), Space)
        w == CHOOSE w \in StatusWords : StartsWithIgnoreCase(section, q, w)
    IN  IF k = -1 THEN None
        ELSE [found |-> TRUE, group |-> Slice(section, q, q + Len(w))]

\* lines 72-75
StatusType(section) ==
    LET first == SearchMarker(section)
        status_match == IF first.found THEN first ELSE SearchPolicyStatus(section)
    IN  IF status_match.found THEN Upper(status_match.group) ELSE NA

\* the lookahead (?=\s*L1|\s*L2|\s*$) at offset e: past the whitespace run a
\* terminating label starts or the text ends ($ also matches before a final "\n",
\* which is then part of that run)
Lookahead(section, e, stops) ==
    LET a == Skip(section, e, Space) IN
    a = Len(section) \/ \E w \in stops : StartsWith(section, a, w)

\* (.*?) from offset p under DOTALL: the first end at which the lookahead holds
LazyEnd(section, p, stops) ==
    LET At(e) == Lookahead(section, e, stops) IN First({ e \in p..Len(section) : At(e) })

\* re.search(r'<label>\s*(.*?)(?=\s*<stop>|...|\s*$)', section, re.DOTALL): the
\* text after the first occurrence of the label
SearchField(section, label, stops) ==
    LET k == Find(section, label, 0)
        p == Skip(section, k + Len(label), Space)
    IN  IF k = -1 THEN None
        ELSE [found |-> TRUE, group |-> Slice(section, p, LazyEnd(section, p, stops))]

\* lines 89, 90, 92, 93: m.group(1).strip() if m else 'N/A'
FieldText(m) == IF m.found THEN Strip(m.group) ELSE NA

\* line 91: m.group(1).strip().split('\n') if m else ['N/A']
FieldLines(m) == IF m.found THEN SplitLines(Strip(m.group), 0) ELSE <<NA>>

\* lines 72-94: the record of one entry
ExtractRecord(entry, section) ==
    [number      |-> entry.number,
     description |-> entry.description,
     type        |-> StatusType(section),
     info        |-> FieldText(SearchField(section, InfoLabel, {SolutionLabel})),
     solution    |-> FieldText(SearchField(section, SolutionLabel,
                                           {SeeAlsoLabel, ReferencesLabel})),
     references  |-> FieldLines(SearchField(section, ReferencesLabel, {AuditFileLabel})),
     auditFile   |-> FieldText(SearchField(section, AuditFileLabel, {PolicyValueLabel})),
     policyValue |-> FieldText(SearchField(section, PolicyValueLabel, {HostsLabel}))]

---------------------------------------------------------------------------
(* Inputs                                                                  *)

MaxSections == 3

\* the TOC of three findings, bulleted, and a TOC of two without bullets
TocThree ==
    <<"@"," ","1",".","1"," ","A"," ",".",".","."," ","5","\n","@"," ","1",".","2"," ",
      "B"," ",".",".","."," ","6","\n","@"," ","1",".","3"," ","C"," ",".",".","."," ",
      "7">>
TocTwoPlain ==
    <<"1",".","1"," ","A"," ",".",".","."," ","5","\n","1",".","2"," ","B"," ",".",".",
      "."," ","6">>

AnchorTexts == { <<"1",".","1"," ","A">>,
                 <<"1",".","2"," ","B">>,
                 <<"1",".","3"," ","C">> }

\* what a report prints after a finding's title: nothing; a status marker with
\* an empty Info block and a Solution; a Policy Value block holding a status
Contents == { <<>>,
              <<" ","*","*"," ","F","A","I","L","E","D"," ","*","*","\n","I","n","f",
                "o","\n","S","o","l","u","t","i","o","n"," ","y">>,
              <<"\n","P","o","l","i","c","y"," ","V","a","l","u","e","\n","P","A","S",
                "S","E","D">> }

Sections == { a \o c : a \in AnchorTexts, c \in Contents }

RECURSIVE JoinLines(_)
JoinLines(f) ==
    IF Len(f) = 0 THEN <<>>
    ELSE IF Len(f) = 1 THEN f[1]
    ELSE f[1] \o <<"\n">> \o JoinLines(Tail(f))

\* the texts of at most max sections, one per line
Bodies(max) == UNION { { JoinLines(f) : f \in [1..n -> Sections] } : n \in 0..max }

\* a text that prints the second anchor twice: before the first finding (a page
\* header, a cross-reference) and at the second finding itself
RepeatedAnchorBody ==
    <<"1",".","2"," ","B","\n","1",".","1"," ","A","\n","1",".","2"," ","B","\n","1",".","3"," ","C">>

\* the worked example of the documentation
ExampleToc ==
    <<"@"," ","1",".","1"," ","E","n","s","u","r","e"," ","T","e","s","t"," ","I","t",
      "e","m"," ",".",".",".",".",".","."," ","5">>
ExampleBody ==
    <<"1",".","1"," ","E","n","s","u","r","e"," ","T","e","s","t"," ","I","t","e","m",
      " ","*","*"," ","F","A","I","L","E","D"," ","*","*"," ","I","n","f","o"," ","D",
      "o"," ","X","."," ","S","o","l","u","t","i","o","n"," ","D","o"," ","Y","."," ",
      "R","e","f","e","r","e","n","c","e","s"," ","h","t","t","p",":","/","/","a"," ",
      "R","e","f","e","r","e","n","c","e","s"," ","A","u","d","i","t"," ","F","i","l",
      "e"," ","c","m","d"," ","-","-","c","h","e","c","k"," ","P","o","l","i","c","y",
      " ","V","a","l","u","e"," ","t","r","u","e"," ","H","o","s","t","s"," ","h","o",
      "s","t","1">>

\* a JSON value of the payload: a string, null, a number, or no such key
Str(t)  == [kind |-> "str", val |-> t]
Null    == [kind |-> "null", val |-> <<>>]
Zero    == [kind |-> "zero", val |-> <<>>]
Number  == [kind |-> "number", val |-> <<>>]
Missing == [kind |-> "missing", val |-> <<>>]

NoField == Str(<<>>)

OddFields == { Missing, Null, Zero, Number, Str(<<>>), Str(TocThree) }

\* a request body: not JSON at all, JSON that is no object, or an object
Requests ==
    { [json |-> j, toc |-> NoField, pdf |-> NoField] : j \in {"malformed", "nonobject"} }
    \cup { [json |-> "object", toc |-> a, pdf |-> b] : a \in OddFields, b \in OddFields }
    \cup { [json |-> "object", toc |-> Str(TocThree), pdf |-> Str(b)] :
              b \in Bodies(MaxSections) }
    \cup { [json |-> "object", toc |-> Str(TocTwoPlain), pdf |-> Str(b)] :
              b \in Bodies(MaxSections - 1) }
    \cup { [json |-> "object", toc |-> Str(TocThree), pdf |-> Str(RepeatedAnchorBody)] }
    \cup { [json |-> "object", toc |-> Str(ExampleToc), pdf |-> Str(ExampleBody)] }

---------------------------------------------------------------------------
(* The request handler and the parser, step by step                        *)

NoResponse == [status |-> 0, kind |-> "none", results |-> <<>>]

ErrorResponse(code) == [status |-> code, kind |-> "error", results |-> <<>>]

ResultsResponse(results) == [status |-> 200, kind |-> "results", results |-> results]

\* line 111: Python truth of a payload value
Truthy(v) == v.kind = "number" \/ (v.kind = "str" /\ v.val # <<>>)

\* lines 108-109: data.get(key, '')
GetField(v) == IF v.kind = "missing" THEN Str(<<>>) ELSE v

Init ==
    /\ request \in Requests
    /\ pc = "get_json"
    /\ toc_text = NoField
    /\ pdf_text = NoField
    /\ full_text = <<>>
    /\ toc_entries = <<>>
    /\ i = 0
    /\ data = <<>>
    /\ slices = <<>>
    /\ warnings = <<>>
    /\ invoked = FALSE
    /\ response = NoResponse

\* lines 107-109 with a JSON object as payload
GetJson ==
    /\ pc = "get_json"
    /\ request.json = "object"
    /\ toc_text' = GetField(request.toc)
    /\ pdf_text' = GetField(request.pdf)
    /\ pc' = "validate"
    /\ UNCHANGED <<request, response, invoked, full_text, toc_entries, i, data, slices,
                   warnings>>

\* lines 107-108 and 117-118: get_json() raises on a body that is not JSON, and
\* data.get raises on a payload that is no object; both end in the handler's except
GetJsonRaises ==
    /\ pc = "get_json"
    /\ request.json # "object"
    /\ response' = ErrorResponse(500)
    /\ pc' = "done"
    /\ UNCHANGED <<request, invoked, toc_text, pdf_text, full_text, toc_entries, i,
                   data, slices, warnings>>

\* lines 111-112
RejectEmpty ==
    /\ pc = "validate"
    /\ ~Truthy(toc_text) \/ ~Truthy(pdf_text)
    /\ response' = ErrorResponse(400)
    /\ pc' = "done"
    /\ UNCHANGED <<request, invoked, toc_text, pdf_text, full_text, toc_entries, i,
                   data, slices, warnings>>

\* line 114: the call of parse_pdf_text_by_toc(toc_text, pdf_text)
CallParse ==
    /\ pc = "validate"
    /\ Truthy(toc_text) /\ Truthy(pdf_text)
    /\ invoked' = TRUE
    /\ pc' = "normalize"
    /\ UNCHANGED <<request, response, toc_text, pdf_text, full_text, toc_entries, i,
                   data, slices, warnings>>

\* lines 20-26
Normalize ==
    /\ pc = "normalize"
    /\ pdf_text.kind = "str"
    /\ full_text' = NormalizeText(pdf_text.val)
    /\ pc' = "parse_toc"
    /\ UNCHANGED <<request, response, invoked, toc_text, pdf_text, toc_entries, i,
                   data, slices, warnings>>

\* lines 29-42
ParseToc ==
    /\ pc = "parse_toc"
    /\ toc_text.kind = "str"
    /\ toc_entries' = TocEntries(toc_text.val)
    /\ data' = <<>>
    /\ i' = 0
    /\ pc' = "loop"
    /\ UNCHANGED <<request, response, invoked, toc_text, pdf_text, full_text, slices,
                   warnings>>

\* lines 20, 32 and 117-118: re.sub and re.findall raise TypeError on a value that
\* is no string, which the handler's except turns into the server error
ParseRaises ==
    /\ \/ pc = "normalize" /\ pdf_text.kind # "str"
       \/ pc = "parse_toc" /\ toc_text.kind # "str"
    /\ response' = ErrorResponse(500)
    /\ pc' = "done"
    /\ UNCHANGED <<request, invoked, toc_text, pdf_text, full_text, toc_entries, i,
                   data, slices, warnings>>

DropWarning(w, start_string) == w

\* line 54: the warning printed for an anchor that is not found
EmitWarning(w, start_string) == Append(w, start_string)

PrependRecord(d, record) == <<record>> \o d

\* line 85: data.append
AppendRecord(d, record) == Append(d, record)

\* lines 45-55: the entry whose anchor is not in the text is skipped
LoopSkip ==
    /\ pc = "loop"
    /\ i < Len(toc_entries)
    /\ StartIndex(full_text, toc_entries[i + 1]) = -1
    /\ warnings' = EmitWarning(warnings, AnchorOf(toc_entries[i + 1]))
    /\ i' = i + 1
    /\ UNCHANGED <<request, response, pc, invoked, toc_text, pdf_text, full_text,
                   toc_entries, data, slices>>

\* lines 45-53 and 57-94: the entry whose anchor is found yields a record
LoopEmit ==
    /\ pc = "loop"
    /\ i < Len(toc_entries)
    /\ StartIndex(full_text, toc_entries[i + 1]) # -1
    /\ LET start_index == StartIndex(full_text, toc_entries[i + 1])
           end_index == EndIndex(full_text, toc_entries, i + 1, start_index)
           section_content == Slice(full_text, start_index, end_index)
       IN  /\ slices' = Append(slices, [start |-> start_index, end |-> end_index])
           /\ data' = AppendRecord(data, ExtractRecord(toc_entries[i + 1], section_content))
    /\ i' = i + 1
    /\ UNCHANGED <<request, response, pc, invoked, toc_text, pdf_text, full_text,
                   toc_entries, warnings>>

\* lines 96 and 114-115
Return ==
    /\ pc = "loop"
    /\ i = Len(toc_entries)
    /\ response' = ResultsResponse(data)
    /\ pc' = "done"
    /\ UNCHANGED <<request, invoked, toc_text, pdf_text, full_text, toc_entries, i,
                   data, slices, warnings>>

Next ==
    \/ GetJson
    \/ GetJsonRaises
    \/ RejectEmpty
    \/ CallParse
    \/ Normalize
    \/ ParseToc
    \/ ParseRaises
    \/ LoopSkip
    \/ LoopEmit
    \/ Return

Spec == Init /\ [][Next]_vars

---------------------------------------------------------------------------
(* The normaliser alone: parse_pdf_text_by_toc entered with any short raw  *)
(* text                                                                    *)

MaxRawLen == 4

RawChars == {"a", ".", "-", " ", "\t", "\n"}

RawTexts == UNION { [1..n -> RawChars] : n \in 0..MaxRawLen }

InitNorm ==
    /\ \E raw \in RawTexts :
          /\ request = [json |-> "object", toc |-> Str(TocThree), pdf |-> Str(raw)]
          /\ pdf_text = Str(raw)
    /\ toc_text = Str(TocThree)
    /\ pc = "normalize"
    /\ invoked = TRUE
    /\ full_text = <<>>
    /\ toc_entries = <<>>
    /\ i = 0
    /\ data = <<>>
    /\ slices = <<>>
    /\ warnings = <<>>
    /\ response = NoResponse

NextNorm == Normalize

SpecNorm == InitNorm /\ [][NextNorm]_vars

---------------------------------------------------------------------------
(* The TOC parser alone: parse_pdf_text_by_toc reaching line 29 with a TOC *)
(* of bulleted lines "<bullet> <number> <title> <dots> <page>"             *)

MaxTocLines == 2

TocNumbers == { <<"1",".","1">>, <<"2",".","1","0",".","3">> }

\* titles of plain words, with a version number, with stops, with stops that
\* are no leader; and two that hold what the pattern reads as structure, a
\* leader with a page number and then a second numbered item
PlainTitles == { <<"A">>,
                 <<"S","e","t"," ","T","L","S"," ","1",".","2">>,
                 <<"a","."," ","b">>,
                 <<"a"," ",".",".","."," ","b">> }

OddTitles == { <<"x",".",".",".","1"," ","2",".","2"," ","c">>,
               <<"b"," ",".",".",".",".","7"," ","3",".","4"," ","d">> }

TocLine(number, title) ==
    <<Bullet, " ">> \o number \o <<" ">> \o title \o <<" ",".",".",".",".","."," ","1","2">>

TocLinesOf(titles) == { TocLine(n, d) : n \in TocNumbers, d \in titles }

TocTextsOf(titles) ==
    UNION { { JoinLines(f) : f \in [1..n -> TocLinesOf(titles)] } : n \in 1..MaxTocLines }

InitToc ==
    /\ \E t \in TocTextsOf(PlainTitles \cup OddTitles) :
          /\ request = [json |-> "object", toc |-> Str(t), pdf |-> Str(<<"x">>)]
          /\ toc_text = Str(t)
    /\ pdf_text = Str(<<"x">>)
    /\ full_text = <<"x">>
    /\ pc = "parse_toc"
    /\ invoked = TRUE
    /\ toc_entries = <<>>
    /\ i = 0
    /\ data = <<>>
    /\ slices = <<>>
    /\ warnings = <<>>
    /\ response = NoResponse

NextToc == ParseToc

SpecToc == InitToc /\ [][NextToc]_vars

---------------------------------------------------------------------------
(* Properties                                                              *)

RecordKeys == {"number", "description", "type", "info", "solution", "references",
               "auditFile", "policyValue"}

Pairs(records) ==
    [k \in 1..Len(records) |->
        [number |-> records[k].number, description |-> records[k].description]]

RECURSIVE IsSubsequence(_, _)
IsSubsequence(a, b) ==
    IF a = <<>> THEN TRUE
    ELSE IF b = <<>> THEN FALSE
    ELSE IF Head(a) = Head(b) THEN IsSubsequence(Tail(a), Tail(b))
    ELSE IsSubsequence(a, Tail(b))

Located(entry) == StartIndex(full_text, entry) # -1

Unlocated(entry) == ~Located(entry)

\* the entries the loop has gone through
Handled == SubSeq(toc_entries, 1, i)

Answered == pc = "done" /\ response.kind = "results"

\* the text of the j-th record's section
SectionOf(j) == Slice(full_text, slices[j].start, slices[j].end)

\* the index in data of the record of entry k, entry k being located
RecordIndex(k) == Cardinality({ j \in 1..k : Located(toc_entries[j]) })

\* the records of a whole run of lines 45-94 over the given entries
RECURSIVE ParseFrom(_, _, _)
ParseFrom(text, entries, k) ==
    IF k > Len(entries) THEN <<>>
    ELSE LET start == StartIndex(text, entries[k])
             section == Slice(text, start, EndIndex(text, entries, k, start))
         IN  (IF start = -1 THEN <<>> ELSE <<ExtractRecord(entries[k], section)>>)
                 \o ParseFrom(text, entries, k + 1)

RemoveAt(seq, k) == SubSeq(seq, 1, k - 1) \o SubSeq(seq, k + 1, Len(seq))

ExampleRecord ==
    [number      |-> <<"1",".","1">>,
     description |-> <<"E","n","s","u","r","e"," ","T","e","s","t"," ","I","t","e","m">>,
     type        |-> <<"F","A","I","L","E","D">>,
     info        |-> <<"D","o"," ","X",".">>,
     solution    |-> <<"D","o"," ","Y",".">>,
     references  |-> << <<"h","t","t","p",":","/","/","a">> >>,
     auditFile   |-> <<"c","m","d"," ","-","-","c","h","e","c","k">>,
     policyValue |-> <<"t","r","u","e">>]

\* C1: the worked example (TOC "@ 1.1 Ensure Test Item ...... 5" and the body
\* with the doubled References label) is answered with exactly the one record
\* number 1.1, Ensure Test Item, FAILED, "Do X.", "Do Y.", ["http://a"],
\* "cmd --check", "true".
C1_ExampleYieldsDocumentedRecord ==
    (pc = "done" /\ request.toc = Str(ExampleToc) /\ request.pdf = Str(ExampleBody))
        => response.results = <<ExampleRecord>>

\* C2: the (number, description) pairs of the records are a subsequence of the
\* TOC entries, in TOC order, at most one record per entry, so never more
\* records than entries; the answer carries exactly these records.
C2_RecordsFollowTocOrder ==
    /\ Len(data) <= i
    /\ i <= Len(toc_entries)
    /\ IsSubsequence(Pairs(data), Handled)
    /\ Answered => /\ response.results = data
                   /\ IsSubsequence(Pairs(response.results), toc_entries)
                   /\ Len(response.results) <= Len(toc_entries)

C2_Witness ==
    /\ Answered
    /\ Len(toc_entries) = 3
    /\ Pairs(response.results) = <<toc_entries[1], toc_entries[3]>>

\* C3: an entry whose anchor is not in the text affects no record: the answer
\* is the one the same text gets with that entry taken out of the TOC.
C3_UnlocatedEntryAffectsNoRecord ==
    Answered =>
        \A k \in 1..Len(toc_entries) :
            Unlocated(toc_entries[k])
                => response.results = ParseFrom(full_text, RemoveAt(toc_entries, k), 1)

\* C4: an anchor that is not found is never fatal: the entry gets no record, its
\* anchor is printed as a warning, the loop goes on to the remaining entries,
\* and a call with two strings always ends in an answer with the records of
\* exactly the located entries.
C4_AnchorNotFoundNeverFatal ==
    /\ pc = "loop" \/ Answered
          => /\ Pairs(data) = SelectSeq(Handled, Located)
             /\ warnings = [k \in 1..Len(SelectSeq(Handled, Unlocated)) |->
                               AnchorOf(SelectSeq(Handled, Unlocated)[k])]
    /\ (pc = "done" /\ invoked /\ toc_text.kind = "str" /\ pdf_text.kind = "str")
          => /\ Answered
             /\ i = Len(toc_entries)
             /\ response.results = data

C4_Witness ==
    /\ Answered
    /\ Len(toc_entries) = 2
    /\ Located(toc_entries[1])
    /\ Unlocated(toc_entries[2])
    /\ Pairs(response.results) = <<toc_entries[1]>>
    /\ warnings = <<AnchorOf(toc_entries[2])>>

\* the offset of entry k's anchor when every anchor is searched forward from
\* the end of the one before it (from the start for the first), or -1
RECURSIVE Chased(_)
Chased(k) ==
    IF k = 1 THEN Find(full_text, AnchorOf(toc_entries[1]), 0)
    ELSE IF Chased(k - 1) = -1 THEN -1
    ELSE Find(full_text, AnchorOf(toc_entries[k]),
              Chased(k - 1) + Len(AnchorOf(toc_entries[k - 1])))

\* C5: for three consecutive entries A, B, C whose anchors occur in the text in
\* this order, B's section starts at the first occurrence of B's anchor after
\* the end of A's anchor and ends where C's section starts, and A's section
\* ends where B's starts: the sections abut, also when an anchor occurs twice.
C5_ConsecutiveSectionsAbut ==
    Answered =>
        \A k \in 1..(Len(toc_entries) - 2) :
            Chased(k + 2) # -1
            => LET A == slices[RecordIndex(k)]
                   B == slices[RecordIndex(k + 1)]
                   C == slices[RecordIndex(k + 2)]
               IN  /\ B.start = Find(full_text, AnchorOf(toc_entries[k + 1]),
                                     A.start + Len(AnchorOf(toc_entries[k])))
                   /\ A.end = B.start
                   /\ B.end = C.start

\* C6: every record has the eight keys; a field whose label is not in the
\* section is "N/A" (["N/A"] for references); no free-text field is the empty
\* string and references is neither empty nor [""].
C6_SentinelComplete ==
    \A j \in 1..Len(data) :
        LET r == data[j]
            Absent(label) == Find(SectionOf(j), label, 0) = -1
        IN  /\ DOMAIN r = RecordKeys
            /\ Absent(InfoLabel) => r.info = NA
            /\ Absent(SolutionLabel) => r.solution = NA
            /\ Absent(ReferencesLabel) => r.references = <<NA>>
            /\ Absent(AuditFileLabel) => r.auditFile = NA
            /\ Absent(PolicyValueLabel) => r.policyValue = NA
            /\ (\A w \in StatusWords : Find(SectionOf(j), w, 0) = -1) => r.type = NA
            /\ <<>> \notin {r.info, r.solution, r.auditFile, r.policyValue}
            /\ r.references # <<>>
            /\ r.references # << <<>> >>

\* the payload is not what the handler asks for: no JSON object, or toc_text
\* or pdf_text missing, null, no string, or empty
BadInput ==
    \/ request.json # "object"
    \/ \E v \in {request.toc, request.pdf} : v.kind # "str" \/ v.val = <<>>

\* C7: a request with malformed input, or with toc_text or pdf_text missing or
\* empty, ends in the client error with an error message only, the parser not
\* having been called; the server error is answered only when the parser itself
\* failed; every request ends in exactly one of results and error.
C7_BadInputIsClientError ==
    pc = "done" =>
        /\ BadInput => response = ErrorResponse(400) /\ ~invoked
        /\ response.status = 500 => invoked
        /\ response.kind \in {"results", "error"}
        /\ response.kind = "error" => response.results = <<>>

\* the status the documentation gives a section: the word of the first marker,
\* else the status word right after a Policy Value label, else "N/A"
DocumentedStatus(section) ==
    LET After(k) == Skip(section, k + Len(PolicyValueLabel), Space)
        At(k) == /\ StartsWith(section, k, PolicyValueLabel)
                 /\ \E w \in StatusWords : StartsWith(section, After(k), w)
        k == First({ j \in 0..(Len(section) - 1) : At(j) })
    IN  IF SearchMarker(section).found THEN SearchMarker(section).group
        ELSE IF k # -1 THEN CHOOSE w \in StatusWords : StartsWith(section, After(k), w)
        ELSE NA

\* C10: a record's type is FAILED, PASSED, SKIPPED or N/A: the word of the first
\* "** <status> **" marker of its section; without a marker, the status word
\* that follows a Policy Value label (as in "Policy Value FAILED"); else "N/A".
C10_StatusWithFallback ==
    \A j \in 1..Len(data) :
        /\ data[j].type \in StatusWords \cup {NA}
        /\ data[j].type = DocumentedStatus(SectionOf(j))

RemoveBullets(t) == SelectSeq(t, LAMBDA c : c # Bullet)

\* C8: a TOC of lines "<bullet> <number> <title> <dots> <page>" is parsed into
\* the same entries as the same text with every bullet taken out.
C8_BulletsDoNotMatter ==
    pc = "loop" => toc_entries = TocEntries(RemoveBullets(toc_text.val))

\* C8, amended: the same, for titles that hold neither a bullet nor a run of
\* three or more stops followed (after optional whitespace) by a digit.
C8_BulletsDoNotMatterForPlainTitles ==
    (pc = "loop" /\ toc_text.val \in TocTextsOf(PlainTitles))
        => toc_entries = TocEntries(RemoveBullets(toc_text.val))

C8_Witness ==
    /\ pc = "loop"
    /\ toc_text.val \in TocTextsOf(PlainTitles)
    /\ Len(toc_entries) = 2
    /\ toc_entries[1] # toc_entries[2]
    /\ FindAllToc(toc_text.val, 0, FALSE) = FindAllToc(toc_text.val, 0, TRUE)
    /\ FindAllToc(RemoveBullets(toc_text.val), 0, TRUE) = <<>>

Canonical(t) ==
    /\ \A k \in 1..Len(t) : t[k] \in Space => t[k] = " "
    /\ \A k \in 1..(Len(t) - 1) : ~(t[k] \in Space /\ t[k + 1] \in Space)
    /\ t # <<>> => t[1] \notin Space /\ t[Len(t)] \notin Space

\* C9: the normalised text has no line break, no two adjacent whitespace
\* characters and no whitespace at either end, and normalising it again
\* changes nothing.
C9_NormalizedIsCanonicalFixpoint ==
    pc = "parse_toc" => Canonical(full_text) /\ NormalizeText(full_text) = full_text

C9_Witness ==
    /\ pc = "parse_toc"
    /\ pdf_text.val = <<" ", "\n", ".", "a">>
    /\ full_text = <<".", "a">>

====
